---------------------------- MODULE Spec2Model ----------------------------
(***************************************************************************)
(* Model of device_serve_for_eval.py: the Flask handler `complete` (one    *)
(* thread per request), the global requests_queue, the per-request         *)
(* response_queue and the worker loop of __main__ that owns the network.   *)
(***************************************************************************)
EXTENDS Integers, Sequences, FiniteSets, TLC

(***************************************************************************)
(* Bounds.  The source compares qsize() with 100 and reads seq from the    *)
(* configuration file; the model runs the same code with small values.     *)
(* Nothing in the code depends on the value 100 other than the test of     *)
(* line 52, which QueueFull keeps as it is written.                        *)
(***************************************************************************)
\* number of concurrent POST /complete requests (Flask handler threads)
NumHandlers == 3
\* the threshold the handler compares qsize() with (100 in the source, line 52)
QueueCapacity == 1
\* params["seq"], the fixed sequence length of the network (line 101)
SeqLen == 2
\* longest token list the encoder specification feeds to the batch encoder
MaxTokens == 3

Handlers == 1..NumHandlers

(***************************************************************************)
(* Texts and the tokenizer.  A text is a sequence of characters.  The      *)
(* tokenizer is byte-level: every character of the vocabulary is one       *)
(* token, whose id is its position in Vocab counted from 0.  A text that   *)
(* holds anything else stands for a JSON value tokenizer.encode raises on. *)
(***************************************************************************)
Vocab == <<"!", "a", "b", "x">>

TokenIds == 0..(Len(Vocab) - 1)

\* whether tokenizer.encode(text) returns (TRUE) or raises (FALSE)
CanEncode(text) == \A i \in 1..Len(text) : \E k \in 1..Len(Vocab) : Vocab[k] = text[i]

\* tokenizer.encode(text), for a text it does not raise on
encode(text) ==
    [i \in 1..Len(text) |-> (CHOOSE k \in 1..Len(Vocab) : Vocab[k] = text[i]) - 1]

\* tokenizer.convert_ids_to_tokens(ids)
convert_ids_to_tokens(ids) == [i \in 1..Len(ids) |-> Vocab[ids[i] + 1]]

Max(a, b) == IF a >= b THEN a ELSE b

Min(a, b) == IF a <= b THEN a ELSE b

\* n * [v], a Python list holding v n times
Repeat(n, v) == [i \in 1..n |-> v]

\* np.zeros(seq).astype(np.uint32)
Zeros(seq) == Repeat(seq, 0)

\* np.pad(tokens, ((pad_amount, 0),)): pad_amount zeros on the left
PadLeft(tokens, pad_amount) == Repeat(pad_amount, 0) \o tokens

\* a[-seq:] for seq > 0: the last seq elements, all of a when it is shorter
LastN(a, seq) ==
    IF Len(a) <= seq THEN a ELSE SubSeq(a, Len(a) - seq + 1, Len(a))

\* lines 176-180: the padded row of a token list
PaddedTokens(tokens, seq) ==
    LET provided_ctx == Len(tokens)
        pad_amount == Max(seq - provided_ctx, 0)
    IN  LastN(PadLeft(tokens, pad_amount), seq)

\* line 181: the length reported for a token list
ReportedLength(tokens, seq) == Len(tokens)

\* lines 170-186 for one context: the row and the length appended for it
EncodeRow(ctx, seq) ==
    IF CanEncode(ctx)
    THEN [padded_tokens |-> PaddedTokens(encode(ctx), seq),
          length |-> ReportedLength(encode(ctx), seq)]
    ELSE [padded_tokens |-> Zeros(seq), length |-> 0]

(***************************************************************************)
(* The requests a client can send: the body of POST /complete.             *)
(***************************************************************************)
Request(contexts, targets, top_p, temp, gen_tokens) ==
    [contexts |-> contexts, targets |-> targets, top_p |-> top_p,
     temp |-> temp, gen_tokens |-> gen_tokens]

\* a context of SeqLen + 1 tokens, one more than the network's window
LongContext == [i \in 1..(SeqLen + 1) |-> IF i % 2 = 1 THEN "b" ELSE "a"]

\* two contexts (the second longer than seq) and their two targets
TwoContextJob == Request(<< <<"a">>, LongContext >>, << <<"x">>, <<"b">> >>, 0, 0, 1)

\* "contexts": [], "targets": []
EmptyJob == Request(<< >>, << >>, 0, 0, 1)

\* two contexts, one target, and top_p = 2
MismatchedJob == Request(<< <<"a">>, <<"b">> >>, << <<"x">> >>, 2, 0, 1)

\* the first context is one tokenizer.encode raises on
BadContextJob == Request(<< <<"?">>, <<"b">> >>, << <<"x">>, <<"a">> >>, 0, 0, 1)

\* the target is one tokenizer.encode raises on
BadTargetJob == Request(<< <<"a">> >>, << <<"?">> >>, 0, 0, 1)

Requests == {TwoContextJob, EmptyJob, MismatchedJob, BadContextJob, BadTargetJob}

NoRequest == Request(<< >>, << >>, 0, 0, 0)

VARIABLES
    requests_queue,   \* the global Queue of (o, q) entries; q is named by its handler
    hpc,              \* where each handler is in complete()
    content,          \* request.json of each handler
    response_queue,   \* the Queue each handler created (line 55)
    completions,      \* the list each handler collects (lines 65-67)
    wpc,              \* where the worker loop is
    worker_exc,       \* the exception that ended the worker thread, if any
    all_ctx, targets, gen_tokens, top_p, temp, all_q, q,   \* the worker's locals
    all_tokenized, all_length, output,
    enc_ctx, enc_row, enc_length, enc_pc    \* the batch encoder taken alone

hvars == <<hpc, content, completions>>
wlocals == <<all_ctx, targets, gen_tokens, top_p, temp, all_q, q,
             all_tokenized, all_length, output>>
wvars == <<wpc, worker_exc, wlocals>>
encvars == <<enc_ctx, enc_row, enc_length, enc_pc>>
vars == <<requests_queue, response_queue, hvars, wvars, encvars>>

EncIdle ==
    /\ enc_ctx = << >>
    /\ enc_row = << >>
    /\ enc_length = 0
    /\ enc_pc = "off"

SysInit ==
    /\ requests_queue = << >>
    /\ hpc = [h \in Handlers |-> "start"]
    /\ content = [h \in Handlers |-> NoRequest]
    /\ response_queue = [h \in Handlers |-> << >>]
    /\ completions = [h \in Handlers |-> << >>]
    /\ wpc = "idle"
    /\ worker_exc = "none"
    /\ all_ctx = << >>
    /\ targets = << >>
    /\ gen_tokens = 0
    /\ top_p = 0
    /\ temp = 0
    /\ all_q = << >>
    /\ q = 0
    /\ all_tokenized = << >>
    /\ all_length = << >>
    /\ output = << >>

Init == SysInit /\ EncIdle

(***************************************************************************)
(* complete(), POST branch.                                                *)
(***************************************************************************)
\* line 52: the capacity test
QueueFull(qsize) == qsize > QueueCapacity

\* HandlerCheck with the capacity test made after the put: the rejected
\* request is in the queue already
HandlerCheckAfterPut(h) ==
    /\ hpc[h] = "start"
    /\ \A g \in 1..(h - 1) : hpc[g] # "start"
    /\ \E r \in Requests :
         IF QueueFull(Len(requests_queue))
         THEN /\ hpc' = [hpc EXCEPT ![h] = "rejected"]
              /\ requests_queue' = Append(requests_queue, [o |-> r, q |-> h])
              /\ UNCHANGED content
         ELSE /\ hpc' = [hpc EXCEPT ![h] = "checked"]
              /\ content' = [content EXCEPT ![h] = r]
              /\ UNCHANGED requests_queue
    /\ UNCHANGED <<response_queue, completions, wvars, encvars>>

\* lines 50-53: read the body, test the queue size, answer "queue full".
\* Requests are numbered in the order they arrive: handler h is the thread
\* of the h-th request to reach line 50.
HandlerCheck(h) ==
    /\ hpc[h] = "start"
    /\ \A g \in 1..(h - 1) : hpc[g] # "start"
    /\ \E r \in Requests :
         IF QueueFull(Len(requests_queue))
         THEN \* line 53: the error is returned and the thread's locals are gone
              /\ hpc' = [hpc EXCEPT ![h] = "rejected"]
              /\ UNCHANGED content
         ELSE /\ hpc' = [hpc EXCEPT ![h] = "checked"]
              /\ content' = [content EXCEPT ![h] = r]
    /\ UNCHANGED <<requests_queue, response_queue, completions, wvars, encvars>>

\* HandlerPut on a queue built with maxsize = QueueCapacity: put blocks while
\* the queue is full
HandlerPutBounded(h) ==
    /\ hpc[h] = "checked"
    /\ Len(requests_queue) < QueueCapacity
    /\ response_queue' = [response_queue EXCEPT ![h] = << >>]
    /\ requests_queue' = Append(requests_queue, [o |-> content[h], q |-> h])
    /\ hpc' = [hpc EXCEPT ![h] = "waiting"]
    /\ UNCHANGED <<content, completions, wvars, encvars>>

\* lines 55-63: create the response queue and put the entry
HandlerPut(h) ==
    /\ hpc[h] = "checked"
    /\ response_queue' = [response_queue EXCEPT ![h] = << >>]
    /\ requests_queue' = Append(requests_queue, [o |-> content[h], q |-> h])
    /\ hpc' = [hpc EXCEPT ![h] = "waiting"]
    /\ UNCHANGED <<content, completions, wvars, encvars>>

\* HandlerGet that reads the first item and leaves it on the queue
HandlerGetPeek(h) ==
    /\ hpc[h] = "waiting"
    /\ response_queue[h] # << >>
    /\ completions' = [completions EXCEPT ![h] = <<Head(response_queue[h])>>]
    /\ hpc' = [hpc EXCEPT ![h] = "draining"]
    /\ UNCHANGED <<requests_queue, response_queue, content, wvars, encvars>>

\* line 65: completions = [response_queue.get()], blocking while it is empty
HandlerGet(h) ==
    /\ hpc[h] = "waiting"
    /\ response_queue[h] # << >>
    /\ completions' = [completions EXCEPT ![h] = <<Head(response_queue[h])>>]
    /\ response_queue' = [response_queue EXCEPT ![h] = Tail(response_queue[h])]
    /\ hpc' = [hpc EXCEPT ![h] = "draining"]
    /\ UNCHANGED <<requests_queue, content, wvars, encvars>>

\* lines 66-69: one test of the while loop, then its body or the return
HandlerDrain(h) ==
    /\ hpc[h] = "draining"
    /\ IF response_queue[h] # << >>
       THEN /\ completions' = [completions EXCEPT
                                 ![h] = Append(@, Head(response_queue[h]))]
            /\ response_queue' = [response_queue EXCEPT ![h] = Tail(@)]
            /\ UNCHANGED <<hpc, content>>
       ELSE \* line 69: {"completion": completions} is returned to the client
            \* and the thread's locals are gone
            /\ hpc' = [hpc EXCEPT ![h] = "returned"]
            /\ content' = [content EXCEPT ![h] = NoRequest]
            /\ completions' = [completions EXCEPT ![h] = << >>]
            /\ UNCHANGED response_queue
    /\ UNCHANGED <<requests_queue, wvars, encvars>>

(***************************************************************************)
(* The worker loop of __main__.                                            *)
(***************************************************************************)
\* WorkerPoll without the reset of line 144: on Empty all_ctx is still that
\* of the last job
WorkerPollNoReset ==
    /\ wpc = "idle"
    /\ IF requests_queue # << >>
       THEN LET e == Head(requests_queue)
                context_length == Len(e.o.contexts)
            IN  /\ requests_queue' = Tail(requests_queue)
                /\ q' = e.q
                /\ targets' = e.o.targets
                /\ top_p' = e.o.top_p
                /\ temp' = e.o.temp
                /\ gen_tokens' = e.o.gen_tokens
                /\ all_ctx' = e.o.contexts
                /\ all_q' = Repeat(context_length, e.q)
                /\ wpc' = IF e.o.contexts = << >> THEN "idle" ELSE "draining"
       ELSE /\ all_ctx' = all_ctx
            /\ wpc' = IF Len(all_ctx') > 0 THEN "exited" ELSE "idle"
            /\ UNCHANGED <<requests_queue, q, targets, top_p, temp, gen_tokens, all_q>>
    /\ UNCHANGED <<response_queue, hvars, worker_exc, all_tokenized, all_length,
                   output, encvars>>

\* WorkerPoll run by a second thread as well, which polls while the first is
\* inside network.generate
WorkerPollConcurrent ==
    /\ wpc \in {"idle", "computing"}
    /\ IF requests_queue # << >>
       THEN LET e == Head(requests_queue)
                context_length == Len(e.o.contexts)
            IN  /\ requests_queue' = Tail(requests_queue)
                /\ q' = e.q
                /\ targets' = e.o.targets
                /\ top_p' = e.o.top_p
                /\ temp' = e.o.temp
                /\ gen_tokens' = e.o.gen_tokens
                /\ all_ctx' = e.o.contexts
                /\ all_q' = Repeat(context_length, e.q)
                /\ wpc' = IF e.o.contexts = << >> THEN "idle" ELSE "draining"
       ELSE /\ all_ctx' = << >>
            /\ wpc' = IF Len(all_ctx') > 0 THEN "exited" ELSE "idle"
            /\ UNCHANGED <<requests_queue, q, targets, top_p, temp, gen_tokens, all_q>>
    /\ UNCHANGED <<response_queue, hvars, worker_exc, all_tokenized, all_length,
                   output, encvars>>

\* WorkerPoll taking two entries in one pass when two are queued, and putting
\* their contexts into one batch
WorkerPollBatch ==
    /\ wpc = "idle"
    /\ IF requests_queue # << >>
       THEN LET e == Head(requests_queue)
                two == Len(requests_queue) >= 2
                more == IF two THEN requests_queue[2].o.contexts ELSE << >>
                context_length == Len(e.o.contexts)
            IN  /\ requests_queue' =
                       IF two THEN Tail(Tail(requests_queue)) ELSE Tail(requests_queue)
                /\ q' = e.q
                /\ targets' = e.o.targets
                /\ top_p' = e.o.top_p
                /\ temp' = e.o.temp
                /\ gen_tokens' = e.o.gen_tokens
                /\ all_ctx' = e.o.contexts \o more
                /\ all_q' = Repeat(Len(all_ctx'), e.q)
                /\ wpc' = IF all_ctx' = << >> THEN "idle" ELSE "draining"
       ELSE /\ all_ctx' = << >>
            /\ wpc' = IF Len(all_ctx') > 0 THEN "exited" ELSE "idle"
            /\ UNCHANGED <<requests_queue, q, targets, top_p, temp, gen_tokens, all_q>>
    /\ UNCHANGED <<response_queue, hvars, worker_exc, all_tokenized, all_length,
                   output, encvars>>

\* lines 143-165: one pass over the top of the loop
WorkerPoll ==
    /\ wpc = "idle"
    /\ IF requests_queue # << >>
       THEN LET e == Head(requests_queue)
                context_length == Len(e.o.contexts)
            IN  /\ requests_queue' = Tail(requests_queue)
                /\ q' = e.q
                /\ targets' = e.o.targets
                /\ top_p' = e.o.top_p
                /\ temp' = e.o.temp
                /\ gen_tokens' = e.o.gen_tokens
                /\ all_ctx' = e.o.contexts
                /\ all_q' = Repeat(context_length, e.q)
                /\ wpc' = IF e.o.contexts = << >> THEN "idle" ELSE "draining"
       ELSE \* Empty: all_ctx was reset at line 144, so line 160 cannot run
            /\ all_ctx' = << >>
            /\ wpc' = IF Len(all_ctx') > 0 THEN "exited" ELSE "idle"
            /\ UNCHANGED <<requests_queue, q, targets, top_p, temp, gen_tokens, all_q>>
    /\ UNCHANGED <<response_queue, hvars, worker_exc, all_tokenized, all_length,
                   output, encvars>>

\* WorkerEncode without the try of lines 173-183: a context the tokenizer
\* raises on ends the worker
WorkerEncodeNoTry ==
    /\ wpc = "draining"
    /\ IF \A i \in 1..Len(all_ctx) : CanEncode(all_ctx[i])
       THEN /\ all_tokenized' =
                  [i \in 1..Len(all_ctx) |-> EncodeRow(all_ctx[i], SeqLen).padded_tokens]
            /\ all_length' = [i \in 1..Len(all_ctx) |-> EncodeRow(all_ctx[i], SeqLen).length]
            /\ wpc' = "computing"
            /\ UNCHANGED worker_exc
       ELSE /\ wpc' = "dead"
            /\ worker_exc' = "tokenizer"
            /\ UNCHANGED <<all_tokenized, all_length>>
    /\ UNCHANGED <<requests_queue, response_queue, hvars, all_ctx, targets,
                   gen_tokens, top_p, temp, all_q, q, output, encvars>>

\* lines 166-195: encode every context, then enter network.generate
WorkerEncode ==
    /\ wpc = "draining"
    /\ all_tokenized' = [i \in 1..Len(all_ctx) |-> EncodeRow(all_ctx[i], SeqLen).padded_tokens]
    /\ all_length' = [i \in 1..Len(all_ctx) |-> EncodeRow(all_ctx[i], SeqLen).length]
    /\ wpc' = "computing"
    /\ UNCHANGED <<requests_queue, response_queue, hvars, worker_exc, all_ctx, targets,
                   gen_tokens, top_p, temp, all_q, q, output, encvars>>

\* network.generate seen from outside: output[1][0][:, :, 0], one row of
\* gen_tokens ids per row of the batch (here the row's last token, repeated)
generate(tokenized, n) ==
    [i \in 1..Len(tokenized) |-> Repeat(n, tokenized[i][Len(tokenized[i])])]

\* lines 188-199: network.generate returns
EngineReturn ==
    /\ wpc = "computing"
    /\ output' = generate(all_tokenized, gen_tokens)
    /\ wpc' = "publishing"
    /\ UNCHANGED <<requests_queue, response_queue, hvars, worker_exc, all_ctx, targets,
                   gen_tokens, top_p, temp, all_q, q, all_tokenized, all_length, encvars>>

\* line 188: network.generate raises; nothing catches it, the thread ends
EngineRaise ==
    /\ wpc = "computing"
    /\ wpc' = "dead"
    /\ worker_exc' = "engine"
    /\ UNCHANGED <<requests_queue, response_queue, hvars, wlocals, encvars>>

\* zip(output, targets): as many pairs as the shorter of the two
ZipLen(out, tgts) == Min(Len(out), Len(tgts))

\* lines 202-209: the response list, when no target makes the tokenizer raise
Response(out, tgts) ==
    [i \in 1..ZipLen(out, tgts) |->
        <<convert_ids_to_tokens(out[i]), convert_ids_to_tokens(encode(tgts[i]))>>]

\* the channel of the entry put last, as if the worker kept the q of a later
\* dequeue
PublishChannelOfLast ==
    IF requests_queue # << >> THEN requests_queue[Len(requests_queue)].q ELSE all_q[1]

\* the channel the worker sends on (line 201)
PublishChannel == all_q[1]

\* WorkerPublish with one put for every entry of all_q
WorkerPublishPerContext ==
    /\ wpc = "publishing"
    /\ q' = PublishChannel
    /\ IF \A i \in 1..ZipLen(output, targets) : CanEncode(targets[i])
       THEN /\ response_queue' = [response_queue EXCEPT
                  ![q'] = @ \o Repeat(Len(all_q), Response(output, targets))]
            /\ wpc' = "idle"
            /\ UNCHANGED worker_exc
       ELSE /\ wpc' = "dead"
            /\ worker_exc' = "tokenizer"
            /\ UNCHANGED response_queue
    /\ UNCHANGED <<requests_queue, hvars, all_ctx, targets, gen_tokens, top_p, temp,
                   all_q, all_tokenized, all_length, output, encvars>>

\* lines 201-212: build the response and put it on the job's queue
WorkerPublish ==
    /\ wpc = "publishing"
    /\ q' = PublishChannel
    /\ IF \A i \in 1..ZipLen(output, targets) : CanEncode(targets[i])
       THEN /\ response_queue' = [response_queue EXCEPT
                                    ![q'] = Append(@, Response(output, targets))]
            /\ wpc' = "idle"
            /\ UNCHANGED worker_exc
       ELSE \* tokenizer.encode(target) raises at line 207, outside any try
            /\ wpc' = "dead"
            /\ worker_exc' = "tokenizer"
            /\ UNCHANGED response_queue
    /\ UNCHANGED <<requests_queue, hvars, all_ctx, targets, gen_tokens, top_p, temp,
                   all_q, all_tokenized, all_length, output, encvars>>

Handler(h) == HandlerCheck(h) \/ HandlerPut(h) \/ HandlerGet(h) \/ HandlerDrain(h)

Worker == WorkerPoll \/ WorkerEncode \/ EngineReturn \/ EngineRaise \/ WorkerPublish

Next ==
    \/ \E h \in Handlers : HandlerCheck(h)
    \/ \E h \in Handlers : HandlerPut(h)
    \/ \E h \in Handlers : HandlerGet(h)
    \/ \E h \in Handlers : HandlerDrain(h)
    \/ WorkerPoll
    \/ WorkerEncode
    \/ EngineReturn
    \/ EngineRaise
    \/ WorkerPublish

Spec == Init /\ [][Next]_vars

(***************************************************************************)
(* Scheduling: the worker thread and every handler thread that has passed  *)
(* line 52 keep running; a client is never obliged to send a request.      *)
(***************************************************************************)
Fairness ==
    /\ WF_vars(Worker)
    /\ \A h \in Handlers : WF_vars(HandlerPut(h) \/ HandlerGet(h) \/ HandlerDrain(h))

FairSpec == Spec /\ Fairness

(***************************************************************************)
(* The batch encoder taken alone: lines 170-186 applied to one context.    *)
(***************************************************************************)
Chars == {"!", "a", "b", "x", "?"}

\* every text of at most n characters
Texts(n) == UNION {[1..k -> Chars] : k \in 0..n}

EncInit ==
    /\ SysInit
    /\ enc_ctx \in Texts(MaxTokens)
    /\ enc_row = << >>
    /\ enc_length = 0
    /\ enc_pc = "ready"

EncApply ==
    /\ enc_pc = "ready"
    /\ enc_row' = EncodeRow(enc_ctx, SeqLen).padded_tokens
    /\ enc_length' = EncodeRow(enc_ctx, SeqLen).length
    /\ enc_pc' = "done"
    /\ UNCHANGED <<requests_queue, response_queue, hvars, wvars, enc_ctx>>

EncNext == EncApply

EncSpec == EncInit /\ [][EncNext]_vars

(***************************************************************************)
(* Vocabulary of the properties.                                           *)
(***************************************************************************)
\* handler h's entry is on the admission queue
InQueue(h) == \E i \in 1..Len(requests_queue) : requests_queue[i].q = h

\* handler h has taken a result from its response queue
Answered(h) == hpc[h] \in {"draining", "returned"}

\* a result for handler h has been put on its response queue
Published(h) == response_queue[h] # << >> \/ Answered(h)

\* the Job invariant of the data model: equal lengths, parameters in range
ValidJob(r) ==
    /\ Len(r.contexts) = Len(r.targets)
    /\ r.top_p \in 0..1
    /\ r.temp >= 0

\* a valid job with at least one context whose targets the tokenizer accepts
WellFormed(r) ==
    /\ ValidJob(r)
    /\ Len(r.contexts) >= 1
    /\ \A i \in 1..Len(r.targets) : CanEncode(r.targets[i])

\* the pair the i-th context and target of request r should be answered with
ExpectedPair(r, i) ==
    <<convert_ids_to_tokens(
          generate(<<EncodeRow(r.contexts[i], SeqLen).padded_tokens>>, r.gen_tokens)[1]),
      convert_ids_to_tokens(encode(r.targets[i]))>>

(***************************************************************************)
(* C1.  With a fair worker and an engine that never raises, every admitted *)
(* job with at least one context is eventually answered and its handler    *)
(* returns.                                                                *)
(***************************************************************************)
C1_AdmittedJobAnswered ==
    ([](worker_exc # "engine")) =>
        /\ [](\A h \in Handlers : Len(response_queue[h]) + Len(completions[h]) <= 1)
        /\ \A h \in Handlers :
               (hpc[h] = "waiting" /\ content[h].contexts # << >>) ~> (hpc[h] = "returned")

(***************************************************************************)
(* C2.  The admission queue never holds more entries than the capacity     *)
(* threshold.                                                              *)
(***************************************************************************)
C2_QueueWithinCapacity == Len(requests_queue) <= QueueCapacity

\* handlers 1..QueueCapacity have put one after another, nothing was taken,
\* and the next request has not arrived yet
SequentiallyFilled ==
    /\ QueueCapacity + 1 \in Handlers
    /\ \A g \in 1..QueueCapacity : hpc[g] = "waiting"
    /\ requests_queue = [g \in 1..QueueCapacity |-> [o |-> content[g], q |-> g]]
    /\ hpc[QueueCapacity + 1] = "start"

(***************************************************************************)
(* C3.  When QueueCapacity jobs were submitted one after another and none  *)
(* has been taken by the worker, the next submission is rejected.          *)
(***************************************************************************)
C3_NextSubmissionRejected ==
    [][(SequentiallyFilled /\ hpc'[QueueCapacity + 1] # "start")
          => hpc'[QueueCapacity + 1] = "rejected"]_vars

(***************************************************************************)
(* C4.  A job with empty contexts and targets never leaves its caller      *)
(* blocked: while the worker lives, the caller is eventually answered.     *)
(***************************************************************************)
C4_EmptyJobAnswered ==
    ([](wpc # "dead")) =>
        \A h \in Handlers :
            (/\ hpc[h] = "waiting"
             /\ content[h].contexts = << >>
             /\ content[h].targets = << >>) ~> Answered(h)

(***************************************************************************)
(* C5.  When network.generate raises while the worker processes the job of *)
(* handler h, a result is still put on h's response queue.                 *)
(***************************************************************************)
C5_EngineFaultAnswered ==
    \A h \in Handlers :
        (worker_exc = "engine" /\ all_q # << >> /\ all_q[1] = h) ~> Published(h)

(***************************************************************************)
(* C6.  After network.generate has raised, the worker goes back to polling *)
(* and every well-formed job still on the queue is eventually answered.    *)
(***************************************************************************)
C6_WorkerSurvivesFault ==
    /\ (worker_exc = "engine") ~> (wpc = "idle")
    /\ \A h \in Handlers :
           (worker_exc = "engine" /\ InQueue(h) /\ WellFormed(content[h])) ~> Answered(h)

(***************************************************************************)
(* C7.  FIFO service: an entry is taken from the queue only after every    *)
(* entry put before it has been taken and its result published.            *)
(***************************************************************************)
C7_FifoService ==
    [][Len(requests_queue') < Len(requests_queue) =>
         /\ requests_queue' = Tail(requests_queue)
         /\ \A a \in Handlers :
                (hpc[a] = "waiting" /\ ~InQueue(a)) => Published(a)]_vars

(***************************************************************************)
(* C8.  A handler whose job has as many targets as contexts returns a      *)
(* completion array with one entry per context, the i-th being the pair of *)
(* the i-th context and target.                                            *)
(***************************************************************************)
C8_CompletionPerContext ==
    [][\A h \in Handlers :
         (/\ hpc[h] = "draining"
          /\ hpc'[h] = "returned"
          /\ Len(content[h].contexts) = Len(content[h].targets))
         => /\ Len(completions[h]) = Len(content[h].contexts)
            /\ \A i \in 1..Len(content[h].contexts) :
                   /\ Len(completions[h][i]) = 2
                   /\ completions[h][i] = ExpectedPair(content[h], i)]_vars

(***************************************************************************)
(* C9.  A submission whose contexts and targets differ in length, or whose *)
(* parameters are out of range, is never on the admission queue and never  *)
(* reaches the engine.                                                     *)
(***************************************************************************)
C9_InvalidNeverAdmitted ==
    /\ \A i \in 1..Len(requests_queue) : ValidJob(requests_queue[i].o)
    /\ wpc = "computing" => (Len(all_ctx) = Len(targets) /\ top_p \in 0..1 /\ temp >= 0)

(***************************************************************************)
(* C10.  The row of a context of L tokens has SeqLen tokens: the tokens    *)
(* left-padded when L <= SeqLen, the last SeqLen tokens otherwise; the     *)
(* reported length is the smaller of L and SeqLen.                         *)
(***************************************************************************)
C10_PadTruncate ==
    (enc_pc = "done" /\ CanEncode(enc_ctx)) =>
        LET tokens == encode(enc_ctx)
            L == Len(tokens)
        IN  /\ Len(enc_row) = SeqLen
            /\ L <= SeqLen =>
                  /\ \A k \in 1..(SeqLen - L) : enc_row[k] = 0
                  /\ \A k \in 1..L : enc_row[SeqLen - L + k] = tokens[k]
                  /\ enc_length = L
            /\ L > SeqLen =>
                  /\ \A k \in 1..SeqLen : enc_row[k] = tokens[L - SeqLen + k]
                  /\ enc_length = SeqLen


\* request r holds a context tokenizer.encode raises on
HasBadContext(r) == \E i \in 1..Len(r.contexts) : ~CanEncode(r.contexts[i])

\* the row of an encodable context: SeqLen ids, the context's last ids at the
\* right end, the pad value 0 before them
RowOfContext(row, ctx) ==
    LET tokens == encode(ctx)
        kept == Min(Len(tokens), SeqLen)
    IN  /\ Len(row) = SeqLen
        /\ \A k \in 1..kept : row[SeqLen - kept + k] = tokens[Len(tokens) - kept + k]
        /\ \A k \in 1..(SeqLen - kept) : row[k] = 0

\* the batch handed to the engine, context by context
BatchRowsLocal ==
    wpc = "computing" =>
        /\ Len(all_tokenized) = Len(all_ctx)
        /\ Len(all_length) = Len(all_ctx)
        /\ \A i \in 1..Len(all_ctx) :
               IF CanEncode(all_ctx[i])
               THEN /\ RowOfContext(all_tokenized[i], all_ctx[i])
                    /\ all_length[i] = Len(encode(all_ctx[i]))
               ELSE /\ all_tokenized[i] = [k \in 1..SeqLen |-> 0]
                    /\ all_length[i] = 0

(***************************************************************************)
(* C11.  When encoding one context of a job fails, that context's row is   *)
(* all pad with length 0, every other row and length is what its own       *)
(* context gives, the engine is still called, and (as long as the worker   *)
(* lives, as for a job without such a context) the caller is answered.     *)
(***************************************************************************)
C11_EncodingFailureLocal ==
    /\ []BatchRowsLocal
    /\ [][(wpc = "draining" /\ wpc' # "draining") => wpc' = "computing"]_vars
    /\ ([](wpc # "dead")) =>
           \A h \in Handlers :
               (hpc[h] = "waiting" /\ HasBadContext(content[h])) ~> Answered(h)

\* a caller has received the result of a job whose first context failed to
\* encode: two pairs, the first generated from the all-pad row
C11_Witness ==
    \E h \in Handlers :
        /\ hpc[h] = "draining"
        /\ content[h] = BadContextJob
        /\ completions[h] = << << <<<<"!">>, <<"x">>>>, <<<<"b">>, <<"a">>>> >> >>


(***************************************************************************)
(* C12.  A handler blocks only on the get of its own response queue: the   *)
(* capacity check of the next arriving handler, the put of a handler that  *)
(* passed the check and the drain of a handler that got its first item     *)
(* are enabled in every state, whatever the queue's length and the         *)
(* worker's position (in network.generate included); a waiting handler     *)
(* can step exactly when its own response queue holds an item.             *)
(***************************************************************************)
C12_BlocksOnlyOnOwnChannel ==
    \A h \in Handlers :
        /\ (hpc[h] = "start" /\ \A g \in 1..(h - 1) : hpc[g] # "start")
               => ENABLED HandlerCheck(h)
        /\ hpc[h] = "checked" => ENABLED HandlerPut(h)
        /\ hpc[h] = "draining" => ENABLED HandlerDrain(h)
        /\ hpc[h] = "waiting" =>
               ((ENABLED Handler(h)) <=> response_queue[h] # << >>)

\* the worker is inside network.generate, the queue is at capacity, and a
\* handler that passed the check is about to put
C12_Witness ==
    /\ wpc = "computing"
    /\ Len(requests_queue) >= QueueCapacity
    /\ \E h \in Handlers : hpc[h] = "checked"


\* the batch rows of request r
RowsOf(r) == [i \in 1..Len(r.contexts) |-> EncodeRow(r.contexts[i], SeqLen).padded_tokens]

\* the response list computed from request r alone
ResultOf(r) == Response(generate(RowsOf(r), r.gen_tokens), r.targets)

\* the worker is between the dequeue of a job with contexts and its q.put
InCycle == wpc \in {"draining", "computing", "publishing"}

(***************************************************************************)
(* C13.  Between a dequeue and the q.put that follows it, the channel the  *)
(* worker will send on, the targets, gen_tokens, top_p and temp, the rows  *)
(* given to the engine and its output are all those of one job, whose      *)
(* handler is waiting and no longer queued; what sits on a handler's       *)
(* response queue, and what a handler has received, is the result          *)
(* computed from that handler's own request.                               *)
(***************************************************************************)
C13_RoutingCorrect ==
    /\ InCycle =>
           LET h == all_q[1]
           IN  /\ \A i \in 1..Len(all_q) : all_q[i] = h
               /\ q = h
               /\ hpc[h] = "waiting"
               /\ ~InQueue(h)
               /\ response_queue[h] = << >>
               /\ all_ctx = content[h].contexts
               /\ targets = content[h].targets
               /\ gen_tokens = content[h].gen_tokens
               /\ top_p = content[h].top_p
               /\ temp = content[h].temp
               /\ wpc # "draining" => all_tokenized = RowsOf(content[h])
               /\ wpc = "publishing" =>
                      output = generate(RowsOf(content[h]), content[h].gen_tokens)
    /\ \A h \in Handlers :
           /\ response_queue[h] # << >> =>
                  /\ hpc[h] = "waiting"
                  /\ ~InQueue(h)
                  /\ response_queue[h] = <<ResultOf(content[h])>>
           /\ hpc[h] = "draining" => completions[h] = <<ResultOf(content[h])>>

\* a result has been sent to one handler while a handler with a different
\* request is still queued
C13_Witness ==
    \E h, g \in Handlers :
        /\ response_queue[h] # << >>
        /\ InQueue(g)
        /\ content[g] # content[h]


(***************************************************************************)
(* C14.  Each response queue gets at most one item over its lifetime: the  *)
(* items on it and the items its handler has taken from it are never more  *)
(* than one together, and it is empty whenever its handler is not waiting  *)
(* (not yet created, already read, or the handler has returned).           *)
(***************************************************************************)
C14_AtMostOneSend ==
    \A h \in Handlers :
        /\ Len(response_queue[h]) + Len(completions[h]) <= 1
        /\ hpc[h] # "waiting" => response_queue[h] = << >>
        /\ hpc[h] \in {"start", "checked", "rejected"} => completions[h] = << >>

\* the one item is on the queue of a job with two contexts, whose all_q
\* held the queue twice
C14_Witness ==
    \E h \in Handlers :
        /\ Len(response_queue[h]) = 1
        /\ Len(content[h].contexts) = 2
        /\ wpc = "idle"


\* the batch in network.generate is the batch of one job, taken alone
BatchOfOneJob ==
    wpc = "computing" =>
        \E h \in Handlers :
            /\ hpc[h] = "waiting"
            /\ ~InQueue(h)
            /\ all_ctx = content[h].contexts
            /\ all_tokenized = RowsOf(content[h])
            /\ Len(all_length) = Len(content[h].contexts)

\* a step that shortens requests_queue takes its head and nothing else, and
\* the worker's contexts are then those of that entry
TakesOneEntry ==
    Len(requests_queue') < Len(requests_queue) =>
        /\ requests_queue' = Tail(requests_queue)
        /\ all_ctx' = Head(requests_queue).o.contexts

(***************************************************************************)
(* C15.  No batching across jobs: the batch of every engine call is that   *)
(* of one dequeued job, however many entries are queued at the time; a     *)
(* step takes at most one entry from requests_queue, and none is taken     *)
(* between a dequeue and the end of that pass of the loop.                 *)
(***************************************************************************)
C15_NoCrossJobBatching ==
    /\ []BatchOfOneJob
    /\ [][TakesOneEntry]_vars
    /\ [][InCycle => Len(requests_queue') >= Len(requests_queue)]_vars

\* the engine is called for one job while two more are queued
C15_Witness ==
    /\ wpc = "computing"
    /\ Len(requests_queue) >= 2


\* the order of a pass of the loop that reaches the engine, and the two points
\* where an uncaught exception ends the thread (lines 188 and 207)
CycleEdges ==
    {<<"idle", "draining">>, <<"draining", "computing">>,
     <<"computing", "publishing">>, <<"publishing", "idle">>}

ThreadEnds == {<<"computing", "dead">>, <<"publishing", "dead">>}

(***************************************************************************)
(* C16.  Only the worker loop calls the engine, one call at a time: a step *)
(* of a handler leaves the worker's position and locals alone; the worker  *)
(* moves idle -> draining -> computing -> publishing -> idle (or its       *)
(* thread ends); while a call is in progress its arguments do not change;  *)
(* and requests_queue is shortened only by a worker that is idle.          *)
(***************************************************************************)
C16_OneCallAtATime ==
    /\ [][hvars' # hvars => UNCHANGED wvars]_vars
    /\ [][wpc' # wpc => <<wpc, wpc'>> \in CycleEdges \cup ThreadEnds]_vars
    /\ [][(wpc = "computing" /\ wpc' = "computing") =>
              UNCHANGED <<all_ctx, all_tokenized, all_length, gen_tokens, top_p, temp>>]_vars
    /\ [][Len(requests_queue') < Len(requests_queue) => wpc = "idle"]_vars

\* the worker is past the engine call of one job while another entry waits
\* in the queue
C16_Witness ==
    /\ wpc = "publishing"
    /\ requests_queue # << >>


\* handler h was answered "queue full" and has left no trace
NoTraceOf(h) ==
    /\ ~InQueue(h)
    /\ response_queue[h] = << >>
    /\ completions[h] = << >>
    /\ content[h] = NoRequest
    /\ q # h
    /\ \A i \in 1..Len(all_q) : all_q[i] # h

(***************************************************************************)
(* C17.  The step that answers "queue full" changes nothing but the        *)
(* handler's own position: requests_queue, every response queue and the    *)
(* worker are as before; afterwards the handler stays rejected, is never   *)
(* in requests_queue, has no response queue item, and the worker never     *)
(* holds its channel.                                                      *)
(***************************************************************************)
C17_RejectionLeavesNoTrace ==
    /\ [][\A h \in Handlers :
              (hpc[h] = "start" /\ hpc'[h] = "rejected") =>
                  UNCHANGED <<requests_queue, response_queue, content, completions, wvars>>]_vars
    /\ [][\A h \in Handlers : hpc[h] = "rejected" => hpc'[h] = "rejected"]_vars
    /\ [](\A h \in Handlers : hpc[h] = "rejected" => NoTraceOf(h))

\* a request was rejected, and the worker has since emptied the queue and is
\* polling again
C17_Witness ==
    /\ \E h \in Handlers : hpc[h] = "rejected"
    /\ requests_queue = << >>
    /\ wpc = "idle"


\* a step of the worker taken at the top of the loop with nothing queued
OnEmpty == wpc = "idle" /\ requests_queue = << >> /\ wvars' # wvars

(***************************************************************************)
(* C18.  The break of line 160 is never executed: the worker is never out  *)
(* of its loop by that branch, and a pass that finds the queue empty ends  *)
(* with all_ctx empty and the worker back at the top, having called        *)
(* neither the engine nor q.put.                                           *)
(***************************************************************************)
C18_BreakUnreachable ==
    /\ [](wpc # "exited")
    /\ [][OnEmpty =>
              /\ all_ctx' = << >>
              /\ wpc' = "idle"
              /\ UNCHANGED <<requests_queue, response_queue, all_tokenized,
                             all_length, output, worker_exc>>]_vars

\* the worker found the queue empty after a job with contexts: all_ctx was
\* reset, all_q is still that job's
C18_Witness ==
    /\ wpc = "idle"
    /\ requests_queue = << >>
    /\ all_ctx = << >>
    /\ all_q # << >>


\* handler h executes line 69 in this step
Returns(h) == hpc[h] = "draining" /\ hpc'[h] = "returned"

(***************************************************************************)
(* C19.  When a handler returns its success response, the completions it   *)
(* returns hold exactly one element, the response list published for its   *)
(* own job, and its response queue is empty then and from then on.         *)
(***************************************************************************)
C19_OneCompletionReturned ==
    /\ [][\A h \in Handlers :
              Returns(h) =>
                  /\ Len(completions[h]) = 1
                  /\ completions[h][1] = ResultOf(content[h])
                  /\ response_queue[h] = << >>
                  /\ response_queue'[h] = << >>]_vars
    /\ [](\A h \in Handlers : hpc[h] = "returned" => response_queue[h] = << >>)

\* one handler has returned its response and another holds its single
\* element and is about to return
C19_Witness ==
    \E h, g \in Handlers :
        /\ hpc[h] = "returned"
        /\ hpc[g] = "draining"
        /\ Len(completions[g]) = 1

=============================================================================
